---- MODULE Spec2Model ----
(***************************************************************************)
(* Model of the URL-to-Markdown conversion pipeline of                     *)
(* services/url_reader.py.                                                 *)
(*                                                                         *)
(* Text (URLs, Markdown, lines) is a sequence of tokens.  A token is a     *)
(* non-empty chunk of characters; the whitespace tokens are the single     *)
(* characters " " and "\n".  Text is tokenised canonically, so a substring *)
(* test of the code is a contiguous-subsequence test here.                 *)
(***************************************************************************)
EXTENDS Integers, Sequences, FiniteSets, TLC

(***************************************************************************)
(* Bounds of the model                                                     *)
(***************************************************************************)
MaxWords == 11
MaxWc == 12
MaxBlocks == 4
MaxRawLen == 3

(***************************************************************************)
(* Program constants                                                       *)
(***************************************************************************)
MIN_PROXY_WORD_COUNT == 10

None == [none |-> TRUE]

(***************************************************************************)
(* Generic text helpers                                                    *)
(***************************************************************************)
Last(s) == s[Len(s)]

Front(s) == SubSeq(s, 1, Len(s) - 1)

IsWs(t) == t \in {" ", "\n", "\t", "\r"}

\* needle in haystack (substring test)
Contains(hay, needle) ==
  \E i \in 1..(Len(hay) - Len(needle) + 1) :
     SubSeq(hay, i, i + Len(needle) - 1) = needle

\* haystack.endswith(suffix)
EndsWith(hay, suffix) ==
  /\ Len(hay) >= Len(suffix)
  /\ SubSeq(hay, Len(hay) - Len(suffix) + 1, Len(hay)) = suffix

\* index of the first token of s that is in set D, or 0
RECURSIVE FirstIn(_, _, _)
FirstIn(s, D, i) ==
  IF i > Len(s) THEN 0
  ELSE IF s[i] \in D THEN i
  ELSE FirstIn(s, D, i + 1)

\* str.split(sep): the pieces between the separator tokens
RECURSIVE SplitOn(_, _)
SplitOn(s, sep) ==
  IF s = <<>> THEN << <<>> >>
  ELSE LET rest == SplitOn(Tail(s), sep)
       IN  IF Head(s) = sep THEN << <<>> >> \o rest
           ELSE << <<Head(s)>> \o Head(rest) >> \o Tail(rest)

RECURSIVE Join(_, _)
Join(parts, sep) ==
  IF parts = <<>> THEN <<>>
  ELSE IF Len(parts) = 1 THEN parts[1]
  ELSE parts[1] \o <<sep>> \o Join(Tail(parts), sep)

RECURSIVE RStrip(_)
RStrip(s) ==
  IF s = <<>> THEN s
  ELSE IF IsWs(Last(s)) THEN RStrip(Front(s)) ELSE s

RECURSIVE LStrip(_)
LStrip(s) ==
  IF s = <<>> THEN s
  ELSE IF IsWs(Head(s)) THEN LStrip(Tail(s)) ELSE s

Strip(s) == LStrip(RStrip(s))

\* str.splitlines(): like split("\n") without a final empty line
SplitLines(s) ==
  IF s = <<>> THEN <<>>
  ELSE LET parts == SplitOn(s, "\n")
       IN  IF Last(parts) = <<>> THEN Front(parts) ELSE parts

(***************************************************************************)
(* _render_markdown and _word_count                                        *)
(***************************************************************************)
IsBlankLine(line) == Strip(line) = <<>>

\* while cleaned_lines and not cleaned_lines[0].strip(): cleaned_lines.pop(0)
RECURSIVE PopLeadingBlank(_)
PopLeadingBlank(lines) ==
  IF lines = <<>> THEN lines
  ELSE IF IsBlankLine(Head(lines)) THEN PopLeadingBlank(Tail(lines))
  ELSE lines

\* _render_markdown applied to what markdownify returns for the cleaned HTML
RenderMarkdown(markdown) ==
  LET lines == SplitLines(markdown)
      cleaned_lines == [i \in 1..Len(lines) |-> RStrip(lines[i])]
  IN  Strip(Join(PopLeadingBlank(cleaned_lines), "\n"))

\* re.split(r"\s+", markdown): the pieces between maximal whitespace runs
RECURSIVE ReSplitWs(_)
ReSplitWs(s) ==
  IF s = <<>> THEN << <<>> >>
  ELSE IF IsWs(Head(s)) THEN << <<>> >> \o ReSplitWs(LStrip(s))
  ELSE LET rest == ReSplitWs(Tail(s))
       IN  << <<Head(s)>> \o Head(rest) >> \o Tail(rest)

NonEmpty(token) == token # <<>>

\* a word counter that splits on every single whitespace character
WordCountSingleSplit(markdown) ==
  IF markdown = <<>> THEN 0
  ELSE Len(SplitOn([i \in 1..Len(markdown) |->
                      IF IsWs(markdown[i]) THEN " " ELSE markdown[i]], " "))

WordCount(markdown) ==
  IF markdown = <<>> THEN 0
  ELSE Len(SelectSeq(ReSplitWs(markdown), NonEmpty))

(***************************************************************************)
(* URLs.  A URL is its token sequence, e.g.                                *)
(*   <<"https:", "//", "www", ".", "notion", ".", "so", "/", "Notes">>     *)
(***************************************************************************)
SchemeTokens == {"https:", "http:", "HTTPS:"}

\* tokens holding a character outside [A-Za-z0-9_-]
SpecialTokens ==
  SchemeTokens \cup
  {"//", "/", ".", "?", "=", "&", "#", ":", "@", " ", "\n", "\t", "\r",
   "%2F", "%2F%2F", "%3F", "%3D", "%3A", "%40", "https%3A", "http%3A",
   "HTTPS%3A", "+"}

IdToken(t) == t \notin SpecialTokens

\* str.lower() on one token
LowerToken(t) ==
  CASE t = "HTTPS:" -> "https:"
    [] t = "NOTION" -> "notion"
    [] t = "SO" -> "so"
    [] t = "WWW" -> "www"
    [] OTHER -> t

Lower(s) == [i \in 1..Len(s) |-> LowerToken(s[i])]

\* urllib.parse.quote_plus on one token
QuoteToken(t) ==
  CASE t = "/" -> "%2F"
    [] t = "//" -> "%2F%2F"
    [] t = "?" -> "%3F"
    [] t = "=" -> "%3D"
    [] t = ":" -> "%3A"
    [] t = "@" -> "%40"
    [] t = "https:" -> "https%3A"
    [] t = "http:" -> "http%3A"
    [] t = "HTTPS:" -> "HTTPS%3A"
    [] t = " " -> "+"
    [] OTHER -> t

\* urllib.parse.unquote (after '+' -> ' ') on one token
UnquoteToken(t) ==
  CASE t = "%2F" -> "/"
    [] t = "%2F%2F" -> "//"
    [] t = "%3F" -> "?"
    [] t = "%3D" -> "="
    [] t = "%3A" -> ":"
    [] t = "%40" -> "@"
    [] t = "https%3A" -> "https:"
    [] t = "http%3A" -> "http:"
    [] t = "HTTPS%3A" -> "HTTPS:"
    [] t = "+" -> " "
    [] OTHER -> t

Quote(s) == [i \in 1..Len(s) |-> QuoteToken(s[i])]

Unquote(s) == [i \in 1..Len(s) |-> UnquoteToken(s[i])]

\* the characters urlsplit removes wherever they stand: tab, CR, LF
UnsafeUrlToken(t) == t \in {"\t", "\r", "\n"}

SafeUrlToken(t) == ~UnsafeUrlToken(t)

\* urllib.parse.urlsplit after its clean-up: scheme (lower-cased, kept with
\* its colon), netloc up to the first of / ? #, then fragment after the first
\* #, query after the first ?.  No URL of the model holds a ';', so params is
\* always empty.
SplitCleanUrl(url) ==
  LET hasScheme == Len(url) > 0 /\ url[1] \in SchemeTokens
      scheme == IF hasScheme THEN <<LowerToken(url[1])>> ELSE <<>>
      r1 == IF hasScheme THEN Tail(url) ELSE url
      hasNetloc == Len(r1) > 0 /\ r1[1] = "//"
      r2 == IF hasNetloc THEN Tail(r1) ELSE r1
      d == FirstIn(r2, {"/", "//", "?", "#"}, 1)
      netloc == IF ~hasNetloc THEN <<>>
                ELSE IF d = 0 THEN r2 ELSE SubSeq(r2, 1, d - 1)
      r3 == IF ~hasNetloc THEN r2
            ELSE IF d = 0 THEN <<>> ELSE SubSeq(r2, d, Len(r2))
      h == FirstIn(r3, {"#"}, 1)
      fragment == IF h = 0 THEN <<>> ELSE SubSeq(r3, h + 1, Len(r3))
      r4 == IF h = 0 THEN r3 ELSE SubSeq(r3, 1, h - 1)
      q == FirstIn(r4, {"?"}, 1)
      query == IF q = 0 THEN <<>> ELSE SubSeq(r4, q + 1, Len(r4))
      path == IF q = 0 THEN r4 ELSE SubSeq(r4, 1, q - 1)
  IN  [scheme |-> scheme, netloc |-> netloc, path |-> path,
       query |-> query, fragment |-> fragment]

\* urllib.parse.urlparse: leading blanks and every tab, CR and LF are dropped
\* before the URL is split
UrlParse(raw_url) == SplitCleanUrl(SelectSeq(LStrip(raw_url), SafeUrlToken))

\* urllib.parse.urlunparse
UrlUnparse(p) ==
  LET u0 == p.path
      slashed == IF u0 # <<>> /\ u0[1] \notin {"/", "//"}
                 THEN <<"/">> \o u0 ELSE u0
      u1 == IF p.netloc # <<>> \/ (p.scheme # <<>> /\ (u0 = <<>> \/ u0[1] # "//"))
            THEN <<"//">> \o p.netloc \o slashed
            ELSE u0
      u2 == p.scheme \o u1
      u3 == IF p.query # <<>> THEN u2 \o <<"?">> \o p.query ELSE u2
  IN  IF p.fragment # <<>> THEN u3 \o <<"#">> \o p.fragment ELSE u3

\* urllib.parse.parse_qsl(query, keep_blank_values=True): <<name, value>> pairs
ParseQsl(query) ==
  LET items == SelectSeq(SplitOn(query, "&"), NonEmpty)
      Pair(item) ==
        LET e == FirstIn(item, {"="}, 1)
        IN  IF e = 0 THEN <<Unquote(item), <<>> >>
            ELSE <<Unquote(SubSeq(item, 1, e - 1)),
                   Unquote(SubSeq(item, e + 1, Len(item)))>>
  IN  [i \in 1..Len(items) |-> Pair(items[i])]

\* urllib.parse.urlencode
UrlEncode(items) ==
  Join([i \in 1..Len(items) |->
          Quote(items[i][1]) \o <<"=">> \o Quote(items[i][2])], "&")

(***************************************************************************)
(* _normalize_special_urls                                                 *)
(***************************************************************************)
DocsPrefix ==
  <<"https:", "//", "docs", ".", "google", ".", "com", "/", "document",
    "/", "d", "/">>

\* the end of the maximal run of [A-Za-z0-9_-] tokens starting at i
RECURSIVE IdRunEnd(_, _)
IdRunEnd(url, i) ==
  IF i < Len(url) /\ IdToken(url[i + 1]) THEN IdRunEnd(url, i + 1) ELSE i

\* GOOGLE_DOCS_RE.search(url): group(1) of the leftmost match, or <<>>
GoogleDocsSearch(url) ==
  LET n == Len(DocsPrefix)
      starts == {i \in 1..(Len(url) - n) :
                   /\ SubSeq(url, i, i + n - 1) = DocsPrefix
                   /\ IdToken(url[i + n])}
  IN  IF starts = {} THEN <<>>
      ELSE LET i == CHOOSE j \in starts : \A k \in starts : j <= k
           IN  SubSeq(url, i, IdRunEnd(url, i + n))

EmptyDict == [k \in {} |-> ""]

\* "pvs=" in parsed.query
HasPvsMarker(query) == Contains(query, <<"pvs", "=">>)

\* "notion.so" in netloc
IsNotionNetloc(netloc) == Contains(netloc, <<"notion", ".", "so">>)

NormalizeSpecialUrls(url) ==
  LET docs_match == GoogleDocsSearch(url)
      parsed == UrlParse(url)
  IN  IF docs_match # <<>>
      THEN [url |-> docs_match \o <<"/", "export", "?", "format", "=", "html">>,
            metadata |-> ("normalizer" :> "google-docs-html-export")]
      ELSE IF IsNotionNetloc(parsed.netloc) /\ ~HasPvsMarker(parsed.query)
      THEN LET new_query_items ==
                 Append(ParseQsl(parsed.query), << <<"pvs">>, <<"4">> >>)
           IN  [url |-> UrlUnparse([parsed EXCEPT
                                      !.query = UrlEncode(new_query_items)]),
                metadata |-> ("normalizer" :> "notion-reader-mode")]
      ELSE [url |-> url, metadata |-> EmptyDict]

(***************************************************************************)
(* _needs_proxy_render / _should_use_jina_proxy                            *)
(***************************************************************************)
JINA_PROXY_HOSTS ==
  { <<"notion", ".", "so">>,
    <<"www", ".", "notion", ".", "so">>,
    <<"notion", ".", "site">>,
    <<"www", ".", "notion", ".", "site">>,
    <<"docs", ".", "google", ".", "com">> }

ShouldUseJinaProxy(host) ==
  \E allowed \in JINA_PROXY_HOSTS :
     host = allowed \/ EndsWith(host, <<".">> \o allowed)

\* the escalation check without the word-count threshold
NeedsProxyRenderAnyLength(result, url) ==
  ShouldUseJinaProxy(Lower(UrlParse(url).netloc))

NeedsProxyRender(result, url) ==
  /\ result.word_count < MIN_PROXY_WORD_COUNT
  /\ ShouldUseJinaProxy(Lower(UrlParse(url).netloc))

(***************************************************************************)
(* _extract_notion_page_id                                                 *)
(***************************************************************************)
\* number of characters of a token made of hexadecimal digits only, else 0
HexLen(t) ==
  CASE t = "h32" -> 32
    [] t = "h16" -> 16
    [] t = "abc" -> 3
    [] t \in {"a", "d", "f", "1", "4"} -> 1
    [] OTHER -> 0

\* whether s holds a run of at least 32 hexadecimal digits
RECURSIVE HasHexRun(_, _)
HasHexRun(s, run) ==
  IF run >= 32 THEN TRUE
  ELSE IF s = <<>> THEN FALSE
  ELSE IF HexLen(Head(s)) = 0 THEN HasHexRun(Tail(s), 0)
  ELSE HasHexRun(Tail(s), run + HexLen(Head(s)))

NotHyphen(t) == t # "-"

\* the canonical page id, or "" when NOTION_PAGE_ID_RE finds none
ExtractNotionPageId(url) ==
  IF HasHexRun(SelectSeq(url, NotHyphen), 0) THEN "page-uuid" ELSE ""

(***************************************************************************)
(* The Notion block renderer.  A record map is the sequence of its entries *)
(* in the order of the JSON object; a block id is the position of its      *)
(* entry.  Dictionaries are functions; an absent key is outside DOMAIN.    *)
(***************************************************************************)
Get(dict, key, default) == IF key \in DOMAIN dict THEN dict[key] ELSE default

\* style[0] == "a" and len(style) > 1
IsLink(style) == Len(style) > 1 /\ style[1] = "a"

RECURSIVE ApplyStyles(_, _)
ApplyStyles(text, styles) ==
  IF styles = <<>> THEN text
  ELSE LET style == Head(styles)
           styled == IF style # <<>> /\ IsLink(style)
                     THEN <<"[">> \o text \o <<"](">> \o style[2] \o <<")">>
                     ELSE text
       IN  ApplyStyles(styled, Tail(styles))

\* a fragment is <<text, style, ...>>; a style is <<"a", href>>, <<"b">>, ...
RECURSIVE RichTextToMarkdown(_)
RichTextToMarkdown(rich_text) ==
  IF rich_text = <<>> THEN <<>>
  ELSE LET fragment == Head(rich_text)
       IN  (IF fragment = <<>> THEN <<>>
            ELSE ApplyStyles(fragment[1], Tail(fragment)))
           \o RichTextToMarkdown(Tail(rich_text))

\* the token of a code fence (three backquotes)
Fence == "fence3"

Indent(depth) == [i \in 1..(2 * depth) |-> " "]

\* props.get(key, [[default]])[0][0]
FirstText(props, key, default) == Get(props, key, << <<default>> >>)[1][1]

\* the lines one live block appends before its children are rendered
BlockLines(block, depth) ==
  LET block_type == Get(block, "type", "")
      props == Get(block, "properties", EmptyDict)
      text == RichTextToMarkdown(Get(props, "title", <<>>))
      indent == Indent(depth)
  IN  CASE block_type \in {"text", "paragraph"} ->
             IF text # <<>> THEN <<text, <<>> >> ELSE <<>>
        [] block_type = "header" -> << <<"#", " ">> \o text, <<>> >>
        [] block_type = "sub_header" -> << <<"##", " ">> \o text, <<>> >>
        [] block_type = "sub_sub_header" -> << <<"###", " ">> \o text, <<>> >>
        [] block_type = "bulleted_list" -> << indent \o <<"-", " ">> \o text >>
        [] block_type = "numbered_list" -> << indent \o <<"1.", " ">> \o text >>
        [] block_type = "to_do" ->
             LET checked == FirstText(props, "checked", <<"No">>) = <<"Yes">>
                 prefix == IF checked THEN "x" ELSE " "
             IN  << indent \o <<"-", " ", "[", prefix, "]", " ">> \o text >>
        [] block_type = "quote" -> << <<">", " ">> \o text, <<>> >>
        [] block_type = "code" ->
             LET language == FirstText(props, "language", <<>>)
             IN  << <<Fence>> \o language, text, <<Fence>>, <<>> >>
        [] block_type = "callout" ->
             LET icon == FirstText(props, "icon", <<"bulb">>)
             IN  << <<">", " ">> \o icon \o <<" ">> \o text, <<>> >>
        [] block_type = "divider" -> << <<"---">>, <<>> >>
        [] block_type = "image" ->
             LET source == FirstText(props, "source", <<>>)
             IN  IF source # <<>>
                 THEN << <<"![image](">> \o source \o <<")">>, <<>> >>
                 ELSE <<>>
        [] block_type = "toggle" -> << indent \o <<"-", " ">> \o text >>
        [] OTHER -> IF text # <<>> THEN <<text, <<>> >> ELSE <<>>

\* the lines of a block and of its children, children first
LinesChildrenFirst(own, below) == below \o own

\* the lines of a block and of its children, in the order they are appended
LinesOfBlock(own, below) == own \o below

RECURSIVE RenderNotionBlocks(_, _, _)
RenderNotionBlocks(block_ids, blocks, depth) ==
  IF block_ids = <<>> THEN <<>>
  ELSE LET block_id == Head(block_ids)
           rest == RenderNotionBlocks(Tail(block_ids), blocks, depth)
       IN  IF block_id \notin DOMAIN blocks
              \/ ~Get(blocks[block_id], "alive", FALSE)
           THEN rest
           ELSE LET block == blocks[block_id]
                    children == Get(block, "content", <<>>)
                IN  LinesOfBlock(BlockLines(block, depth),
                       RenderNotionBlocks(children, blocks, depth + 1))
                    \o rest

\* ids of the entries that hold a block: entry.get("value") is truthy
BlockIdsOf(record_map) ==
  {i \in 1..Len(record_map) : "value" \in DOMAIN record_map[i]}

BlocksOf(record_map) ==
  [i \in BlockIdsOf(record_map) |-> record_map[i].value]

\* the id of the first block of type "page" in dictionary order, or 0
PageBlockId(record_map) ==
  LET pages == {i \in BlockIdsOf(record_map) :
                  Get(record_map[i].value, "type", "") = "page"}
  IN  IF pages = {} THEN 0
      ELSE CHOOSE i \in pages : \A j \in pages : i <= j

\* the lines _render_notion_page collects before joining them
NotionPageLines(record_map) ==
  LET blocks == BlocksOf(record_map)
      page_block == blocks[PageBlockId(record_map)]
      title == RichTextToMarkdown(
                 Get(Get(page_block, "properties", EmptyDict), "title", <<>>))
  IN  (IF title # <<>> THEN << <<"#", " ">> \o title, <<>> >> ELSE <<>>)
      \o RenderNotionBlocks(Get(page_block, "content", <<>>), blocks, 0)

RenderNotionPage(record_map) ==
  IF PageBlockId(record_map) = 0 THEN <<>>
  ELSE Strip(Join(NotionPageLines(record_map), "\n"))

\* the title text of the first page block with a non-empty title, or <<>>
GuessNotionTitle(record_map) ==
  LET titled == {i \in BlockIdsOf(record_map) :
                   /\ Get(record_map[i].value, "type", "") = "page"
                   /\ RichTextToMarkdown(
                        Get(Get(record_map[i].value, "properties", EmptyDict),
                            "title", <<>>)) # <<>>}
  IN  IF titled = {} THEN <<>>
      ELSE LET i == CHOOSE k \in titled : \A j \in titled : k <= j
           IN  RichTextToMarkdown(record_map[i].value.properties.title)

(***************************************************************************)
(* MarkdownResult and the stages that construct one                        *)
(***************************************************************************)
\* record_map.items() on a value that has no such method
AttributeError ==
  [raised |-> "AttributeError", message |-> "object has no attribute 'items'"]

\* raise MarkdownConversionError(message)
Raise(message) == [raised |-> "MarkdownConversionError", message |-> message]

IsRaise(x) == "raised" \in DOMAIN x

MarkdownResult(source_url, final_url, title, markdown, word_count, metadata) ==
  [source_url |-> source_url, final_url |-> final_url, title |-> title,
   markdown |-> markdown, word_count |-> word_count, metadata |-> metadata]

\* An HTML document is what the HTML libraries make of it: md is what
\* markdownify returns for _clean_html(html), title what
\* _extract_title_from_html finds (<<>> for None); len = 0 is the empty string.
EmptyHtml == [len |-> 0, md |-> <<>>, title |-> <<>>]

\* _markdown_from_html without the check of the rendered Markdown
MarkdownFromHtmlUnchecked(html, original_url, final_url, metadata) ==
  IF html.len = 0 THEN Raise("Empty HTML response.")
  ELSE LET markdown == RenderMarkdown(html.md)
       IN  MarkdownResult(original_url, final_url, html.title, markdown,
                          WordCount(markdown), metadata)

MarkdownFromHtml(html, original_url, final_url, metadata) ==
  IF html.len = 0 THEN Raise("Empty HTML response.")
  ELSE LET markdown == RenderMarkdown(html.md)
       IN  IF markdown = <<>> THEN Raise("Rendered Markdown is empty.")
           ELSE MarkdownResult(original_url, final_url, html.title, markdown,
                               WordCount(markdown), metadata)

\* article is what url2markdown's downloader returned: html stands for
\* article_html or html, the other fields are <<>> / FALSE when absent
ConvertWithUrl2markdown(article, normalized_url, original_url, metadata) ==
  IF article.html.len = 0 THEN Raise("url2markdown returned empty HTML.")
  ELSE LET markdown == RenderMarkdown(article.html.md)
           meta == (IF article.authors THEN ("authors" :> "authors") ELSE EmptyDict)
                   @@ (IF article.publish_date
                       THEN ("publish_date" :> "isoformat") ELSE EmptyDict)
                   @@ (IF article.keywords THEN ("keywords" :> "keywords") ELSE EmptyDict)
                   @@ metadata
           title == IF article.title # <<>> THEN article.title ELSE article.html.title
           final_url == IF article.url # <<>> THEN article.url ELSE normalized_url
       IN  IF markdown = <<>> THEN Raise("Rendered Markdown is empty.")
           ELSE MarkdownResult(original_url, final_url, title, markdown,
                               WordCount(markdown), meta)

\* the metadata _try_notion_api gives its result
NotionMeta(metadata) == ("renderer" :> "notion-api") @@ metadata

\* _try_notion_api after a response that decoded to record_map
NotionResultOf(record_map, normalized_url, original_url, metadata) ==
  LET markdown == RenderNotionPage(record_map)
  IN  IF markdown = <<>> THEN None
      ELSE MarkdownResult(original_url, normalized_url,
                          GuessNotionTitle(record_map), markdown,
                          WordCount(markdown), NotionMeta(metadata))

\* a primary result returned without the escalation check
PrimaryShortCircuitsUnchecked(r, normalized_url) == r # None

\* line 116: if result and not _needs_proxy_render(result, normalized_url)
PrimaryShortCircuits(r, normalized_url) ==
  r # None /\ ~NeedsProxyRender(r, normalized_url)

\* the raw-fetch stage rendering with metadata already tagged for the proxy
RawMetaTagged(metadata) == ("renderer" :> "r.jina.ai") @@ metadata

\* the proxy stage rendering with the metadata left as it was
ProxyMetaUntagged(metadata) == metadata

\* the metadata the proxy stage renders with (line 131)
ProxyMeta(metadata) == ("renderer" :> "r.jina.ai") @@ metadata

\* the metadata the raw-fetch stage renders with (line 124)
RawMeta(metadata) == metadata

(***************************************************************************)
(* Inputs: the URLs requested and what the network answers                 *)
(***************************************************************************)
RECURSIVE Words(_)
Words(n) ==
  IF n = 0 THEN <<>>
  ELSE IF n = 1 THEN <<"w">>
  ELSE <<"w", " ">> \o Words(n - 1)

\* what markdownify may return for a cleaned document
RawMarkdowns ==
  { <<>>,
    <<" ", "\n", " ">>,
    <<"\n", " ", "w", " ", " ", "\n", "\n", "w", "\t", "\n">> }
  \cup {Words(n) : n \in {1, MIN_PROXY_WORD_COUNT - 1, MIN_PROXY_WORD_COUNT, MaxWords}}

\* every text of at most n tokens over a word, a blank and a line break
RECURSIVE TextsUpTo(_)
TextsUpTo(n) ==
  IF n = 0 THEN { <<>> }
  ELSE LET shorter == TextsUpTo(n - 1)
       IN  shorter \cup {Append(t, c) : t \in {x \in shorter : Len(x) = n - 1},
                                        c \in {"w", " ", "\n"}}

Htmls ==
  {EmptyHtml} \cup
  {[len |-> 1, md |-> m,
    title |-> IF Len(m) > 1 THEN <<"Title">> ELSE <<>>] : m \in RawMarkdowns}

Https(netloc, rest) == <<"https:", "//">> \o netloc \o rest

WwwNotionSo == <<"www", ".", "notion", ".", "so">>

PipelineUrls ==
  { Https(WwwNotionSo, <<"/", "Notes", "-", "h32">>),
    Https(WwwNotionSo, <<"/", "Notes">>),
    Https(WwwNotionSo, <<"/", "Notes", "-", "h16", "-", "h16", "?", "pvs", "=", "4">>),
    Https(WwwNotionSo \o <<":", "443">>, <<"/", "Notes", "-", "h32">>),
    Https(<<"team", ".", "notion", ".", "site">>, <<"/", "Notes">>),
    Https(<<"notion", ".", "so", "mething", ".", "com">>, <<"/", "h32">>),
    Https(<<"docs", ".", "google", ".", "com">>,
          <<"/", "document", "/", "d", "/", "abc", "/", "edit">>),
    Https(<<"example", ".", "com">>, <<"/", "Notes">>) }

RedirectUrl == Https(<<"example", ".", "com">>, <<"/", "moved">>)

Text(str) == << <<str>> >>

Block(type, title, content, alive) ==
  [type |-> type, properties |-> ("title" :> title), content |-> content,
   alive |-> alive]

Entry(block) == [role |-> "reader", value |-> block]

\* a page with children [header("Intro"), bulleted_list("a"), bulleted_list("b")]
ExampleMap ==
  << Entry([type |-> "page", content |-> <<2, 3, 4>>, alive |-> TRUE]),
     Entry(Block("header", Text(<<"Intro">>), <<>>, TRUE)),
     Entry(Block("bulleted_list", Text(<<"a">>), <<>>, TRUE)),
     Entry(Block("bulleted_list", Text(<<"b">>), <<>>, TRUE)) >>

NoPageMap ==
  << Entry(Block("text", Text(<<"lonely">>), <<>>, TRUE)) >>

EmptyPageMap ==
  << [role |-> "none"],
     Entry([type |-> "page", properties |-> EmptyDict, alive |-> TRUE]) >>

LongPageMap ==
  << Entry(Block("page", Text(<<"Doc">>), <<2>>, TRUE)),
     Entry(Block("text", Text(Words(MaxWords)), <<>>, TRUE)) >>

SampleMaps == {ExampleMap, NoPageMap, EmptyPageMap, LongPageMap}

\* the answer of the Notion API: an httpx.HTTPError, a body that is not
\* JSON (ValueError), a JSON body that is not an object (here the array []),
\* or the decoded record map
NotionResponses ==
  {[exc |-> "HTTPError"], [exc |-> "ValueError"], [array |-> <<>>]}
  \cup {[json |-> m] : m \in SampleMaps}

PlainArticle(html) ==
  [html |-> html, title |-> <<>>, authors |-> FALSE, publish_date |-> FALSE,
   keywords |-> FALSE, url |-> <<>>]

\* what url2markdown's downloader does: raise, or return an article
PrimaryOutcomes ==
  {[exc |-> "Exception"]}
  \cup {PlainArticle(h) : h \in Htmls}
  \cup {[html |-> [len |-> 1, md |-> Words(m), title |-> <<>>],
         title |-> <<"Article">>, authors |-> TRUE, publish_date |-> TRUE,
         keywords |-> TRUE, url |-> RedirectUrl] : m \in {2, MaxWords}}

\* the answer to the raw GET: an httpx.HTTPError (transport error or
\* raise_for_status), or the body and the final URL
RawResponses ==
  {[exc |-> "ConnectError"], [exc |-> "HTTPStatusError"]}
  \cup {[text |-> h, redirected |-> FALSE] : h \in Htmls}
  \cup {[text |-> [len |-> 1, md |-> m, title |-> <<>>], redirected |-> FALSE] :
          m \in TextsUpTo(MaxRawLen)}
  \cup {[text |-> [len |-> 1, md |-> Words(2), title |-> <<>>],
         redirected |-> TRUE]}

\* the answer of the rendering proxy
ProxyResponses ==
  {[exc |-> "ConnectError"], [exc |-> "HTTPStatusError"]}
  \cup {[text |-> h] : h \in Htmls}

(***************************************************************************)
(* State                                                                   *)
(*   pc              position in convert_url_to_markdown ("start",         *)
(*                   "notion", "primary", "raw", "proxy", "done",          *)
(*                   "failed"), or of a function call ("call", "ret")      *)
(*   url             the URL requested                                     *)
(*   normalized_url, metadata, result, http_result                         *)
(*                   the locals of convert_url_to_markdown                 *)
(*   returned        the MarkdownResult returned, or None                  *)
(*   error           the exception that left convert_url_to_markdown       *)
(*   trace           the stages entered so far                             *)
(*   producer        the stage that constructed the returned result        *)
(*   renderer_writes the stages that wrote metadata["renderer"]            *)
(*   notion_response the answer of the Notion API, None when not asked    *)
(*   primary_outcome what url2markdown's downloader did                    *)
(*   proxy_response  the answer of the rendering proxy                     *)
(*   call, ret       arguments and value of a function applied on its own  *)
(***************************************************************************)
VARIABLES pc, url, normalized_url, metadata, result, http_result, returned,
          error, trace, producer, renderer_writes, notion_response,
          primary_outcome, proxy_response, call, ret

vars == <<pc, url, normalized_url, metadata, result, http_result, returned,
          error, trace, producer, renderer_writes, notion_response,
          primary_outcome, proxy_response, call, ret>>

locals == <<normalized_url, metadata, result, http_result, returned, error,
            trace, producer, renderer_writes, notion_response, primary_outcome,
            proxy_response>>

IdleLocals ==
  /\ normalized_url = <<>>
  /\ metadata = EmptyDict
  /\ result = None
  /\ http_result = None
  /\ returned = None
  /\ error = None
  /\ trace = <<>>
  /\ producer = ""
  /\ renderer_writes = <<>>
  /\ notion_response = None
  /\ primary_outcome = None
  /\ proxy_response = None

Init ==
  /\ pc = "start"
  /\ url \in PipelineUrls
  /\ IdleLocals
  /\ call = None
  /\ ret = None

\* lines 102-103
Normalize ==
  /\ pc = "start"
  /\ LET n == NormalizeSpecialUrls(url)
     IN  /\ normalized_url' = n.url
         /\ metadata' = n.metadata
  /\ trace' = Append(trace, "Normalize")
  /\ pc' = "notion"
  /\ UNCHANGED <<url, result, http_result, returned, error, producer,
                 renderer_writes, notion_response, primary_outcome,
                 proxy_response, call, ret>>

\* lines 104-106 with _try_notion_api
StructuredExtract ==
  /\ pc = "notion"
  /\ \E response \in NotionResponses :
       LET asked == /\ IsNotionNetloc(UrlParse(normalized_url).netloc)
                    /\ ExtractNotionPageId(normalized_url) # ""
           notion_result ==
             IF ~asked THEN None
             ELSE IF "exc" \in DOMAIN response THEN None
             ELSE IF "array" \in DOMAIN response THEN AttributeError
             ELSE NotionResultOf(response.json, normalized_url, url, metadata)
       IN  /\ notion_response' = IF asked THEN response ELSE None
           /\ IF IsRaise(notion_result)
              THEN /\ error' = notion_result
                   /\ pc' = "failed"
                   /\ UNCHANGED <<returned, producer, renderer_writes>>
              ELSE IF notion_result # None
              THEN /\ returned' = notion_result
                   /\ producer' = "StructuredExtract"
                   /\ renderer_writes' = Append(renderer_writes, "StructuredExtract")
                   /\ pc' = "done"
                   /\ UNCHANGED error
              ELSE /\ pc' = "primary"
                   /\ UNCHANGED <<returned, producer, renderer_writes, error>>
  /\ trace' = Append(trace, "StructuredExtract")
  /\ UNCHANGED <<url, normalized_url, metadata, result, http_result,
                 primary_outcome, proxy_response, call, ret>>

\* lines 107-117 with _convert_with_url2markdown
PrimaryConvert ==
  /\ pc = "primary"
  /\ \E outcome \in PrimaryOutcomes :
       LET converted ==
             IF "exc" \in DOMAIN outcome THEN Raise(outcome.exc)
             ELSE ConvertWithUrl2markdown(outcome, normalized_url, url, metadata)
           r == IF IsRaise(converted) THEN None ELSE converted
       IN  /\ result' = r
           /\ primary_outcome' = outcome
           /\ IF PrimaryShortCircuits(r, normalized_url)
              THEN /\ returned' = r
                   /\ producer' = "PrimaryConvert"
                   /\ pc' = "done"
              ELSE /\ pc' = "raw"
                   /\ UNCHANGED <<returned, producer>>
  /\ trace' = Append(trace, "PrimaryConvert")
  /\ UNCHANGED <<url, normalized_url, metadata, http_result, error,
                 renderer_writes, notion_response, proxy_response, call, ret>>

\* lines 119-127 with _download_html and _markdown_from_html
RawFetchAndRender ==
  /\ pc = "raw"
  /\ \E response \in RawResponses :
       LET rendered ==
             IF "exc" \in DOMAIN response
             THEN Raise("Failed to download HTML")
             ELSE MarkdownFromHtml(response.text, url,
                     IF response.redirected THEN RedirectUrl ELSE normalized_url,
                     RawMeta(metadata))
       IN  IF IsRaise(rendered)
           THEN /\ error' = rendered
                /\ pc' = "failed"
                /\ UNCHANGED <<http_result, returned, producer>>
           ELSE /\ http_result' = rendered
                /\ IF ~NeedsProxyRender(rendered, normalized_url)
                   THEN /\ returned' = rendered
                        /\ producer' = "RawFetchAndRender"
                        /\ pc' = "done"
                   ELSE /\ pc' = "proxy"
                        /\ UNCHANGED <<returned, producer>>
                /\ UNCHANGED error
  /\ trace' = Append(trace, "RawFetchAndRender")
  /\ UNCHANGED <<url, normalized_url, metadata, result, renderer_writes,
                 notion_response, primary_outcome, proxy_response, call, ret>>

\* lines 129-138 with _fetch_via_jina_proxy and _markdown_from_html
ProxyFetchAndRender ==
  /\ pc = "proxy"
  /\ \E response \in ProxyResponses :
       LET proxy_html == IF "exc" \in DOMAIN response THEN EmptyHtml
                         ELSE response.text
           rendered == MarkdownFromHtml(proxy_html, url, normalized_url,
                                        ProxyMeta(metadata))
       IN  /\ proxy_response' = response
           /\ IF proxy_html.len > 0
              THEN /\ metadata' = ProxyMeta(metadata)
                   /\ renderer_writes' = Append(renderer_writes, "ProxyFetchAndRender")
                   /\ IF IsRaise(rendered)
                      THEN /\ error' = rendered
                           /\ pc' = "failed"
                           /\ UNCHANGED <<returned, producer>>
                      ELSE /\ returned' = rendered
                           /\ producer' = "ProxyFetchAndRender"
                           /\ pc' = "done"
                           /\ UNCHANGED error
              ELSE /\ returned' = http_result
                   /\ producer' = "RawFetchAndRender"
                   /\ pc' = "done"
                   /\ UNCHANGED <<metadata, renderer_writes, error>>
  /\ trace' = Append(trace, "ProxyFetchAndRender")
  /\ UNCHANGED <<url, normalized_url, result, http_result, notion_response,
                 primary_outcome, call, ret>>

Next ==
  \/ Normalize
  \/ StructuredExtract
  \/ PrimaryConvert
  \/ RawFetchAndRender
  \/ ProxyFetchAndRender

Spec == Init /\ [][Next]_vars

(***************************************************************************)
(* Properties of the conversion pipeline (specification Spec)              *)
(***************************************************************************)
\* the number of maximal runs of non-whitespace tokens
TokenCount(markdown) ==
  Cardinality({i \in 1..Len(markdown) :
                 /\ ~IsWs(markdown[i])
                 /\ (i = 1 \/ IsWs(markdown[i - 1]))})

Constructed == {result, http_result, returned} \ {None}

Renderer(r) == Get(r.metadata, "renderer", "")

\* C1: every result convert_url_to_markdown returns, whichever stage
\* produced it, has a non-empty markdown body; the conversion is done only
\* with such a result.
C1_ReturnedMarkdownNonEmpty ==
  /\ pc = "done" => returned # None
  /\ returned # None => returned.markdown # <<>>

\* a result returned by the proxy stage, after the raw fetch escalated
C1_Witness ==
  /\ pc = "done"
  /\ producer = "ProxyFetchAndRender"
  /\ returned.markdown # <<>>

\* C2 (as claimed): once the proxy stage has been invoked and yields nothing
\* usable (transport error, non-2xx status, empty body, or HTML that renders
\* to empty Markdown), the conversion does not fail and returns the
\* raw-fetch result.
C2_ProxyFailureReturnsRawResult ==
  (/\ proxy_response # None
   /\ \/ "exc" \in DOMAIN proxy_response
      \/ proxy_response.text.len = 0
      \/ RenderMarkdown(proxy_response.text.md) = <<>>)
  => (pc = "done" /\ error = None /\ returned = http_result)

\* C3 (as claimed): the conversion fails only when the raw-fetch stage
\* failed and no earlier stage had produced a result; when an earlier stage
\* produced a result the conversion does not fail.
C3_FailsOnlyOnRawFetchWithoutResult ==
  /\ error # None => (Last(trace) = "RawFetchAndRender" /\ result = None)
  /\ result # None => error = None

\* C5 (as claimed): every returned result carries metadata["renderer"],
\* set exactly once, naming the stage that produced it.
C5_EveryResultCarriesRenderer ==
  returned # None =>
    /\ "renderer" \in DOMAIN returned.metadata
    /\ renderer_writes = <<producer>>

\* C5 (amended): a returned result carries metadata["renderer"] exactly when
\* the structured API ("notion-api") or the proxy ("r.jina.ai") produced it,
\* written once by that stage; a result of the primary converter or of the
\* raw fetch carries no renderer.
C5_RendererOnlyFromNotionOrProxy ==
  returned # None =>
    /\ producer = "StructuredExtract" =>
         Renderer(returned) = "notion-api" /\ renderer_writes = <<producer>>
    /\ producer = "ProxyFetchAndRender" =>
         Renderer(returned) = "r.jina.ai" /\ renderer_writes = <<producer>>
    /\ producer \in {"PrimaryConvert", "RawFetchAndRender"} =>
         /\ "renderer" \notin DOMAIN returned.metadata
         /\ renderer_writes = <<>>

\* a result of the primary converter returned without a renderer
C5_Witness ==
  /\ pc = "done"
  /\ producer = "PrimaryConvert"
  /\ "renderer" \notin DOMAIN returned.metadata

\* C6: a returned result has renderer "notion-api" only if the structured
\* extractor produced it and "r.jina.ai" only if the proxy stage produced
\* it; a raw-fetch result returned without escalation, after the structured
\* extractor and the primary converter declined, has neither.
C6_RendererNamesItsStage ==
  returned # None =>
    /\ Renderer(returned) = "notion-api" => producer = "StructuredExtract"
    /\ Renderer(returned) = "r.jina.ai" => producer = "ProxyFetchAndRender"
    /\ (result = None /\ Last(trace) = "RawFetchAndRender") =>
         Renderer(returned) \notin {"notion-api", "r.jina.ai"}

\* both early stages declined and the raw fetch returned rich content
C6_Witness ==
  /\ pc = "done"
  /\ result = None
  /\ Last(trace) = "RawFetchAndRender"
  /\ returned.word_count >= MIN_PROXY_WORD_COUNT

\* C9: the word_count of every result a stage constructed is the number of
\* whitespace-delimited non-empty tokens of its markdown.
C9_WordCountIsTokenCount ==
  \A r \in Constructed : r.word_count = TokenCount(r.markdown)

\* a returned result whose markdown holds a run of two whitespace characters
C9_Witness ==
  /\ returned # None
  /\ returned.word_count >= 2
  /\ Contains(returned.markdown, <<"\n", "\n">>)

\* C10 (as claimed): a result of StructuredExtract or PrimaryConvert is
\* returned immediately only when it is non-empty and not flagged for
\* escalation.
C10_EarlyResultsReturnedOnlyUnflagged ==
  (pc = "done" /\ producer \in {"StructuredExtract", "PrimaryConvert"}) =>
    /\ returned.markdown # <<>>
    /\ ~NeedsProxyRender(returned, normalized_url)

\* C10 (amended): a PrimaryConvert result is returned immediately only when
\* it is non-empty and not flagged for escalation, and a flagged one sends
\* the pipeline on to the raw-fetch stage; a StructuredExtract result is
\* returned immediately whenever it is non-empty, flagged or not.
C10_PrimaryReturnedOnlyUnflagged ==
  /\ (pc = "done" /\ producer = "PrimaryConvert") =>
       /\ returned = result
       /\ returned.markdown # <<>>
       /\ ~NeedsProxyRender(returned, normalized_url)
  /\ (result # None /\ NeedsProxyRender(result, normalized_url)) =>
       (pc = "raw" \/ (Len(trace) >= 4 /\ trace[4] = "RawFetchAndRender"))
  /\ (pc = "done" /\ producer = "StructuredExtract") =>
       /\ returned.markdown # <<>>
       /\ Len(trace) = 2

\* a flagged primary result was not returned: the raw fetch ran after it
C10_Witness ==
  /\ result # None
  /\ NeedsProxyRender(result, normalized_url)
  /\ Len(trace) >= 4
  /\ trace[4] = "RawFetchAndRender"
  /\ returned # result

Range(seq) == {seq[i] : i \in 1..Len(seq)}

IsPrefix(s, t) == Len(s) <= Len(t) /\ SubSeq(t, 1, Len(s)) = s

StageOrder ==
  <<"Normalize", "StructuredExtract", "PrimaryConvert", "RawFetchAndRender",
    "ProxyFetchAndRender">>

\* the proxy stage is entered, or about to be
ProxyInvoked == pc = "proxy" \/ "ProxyFetchAndRender" \in Range(trace)

\* C11: the stages of one conversion run in the order Normalize,
\* StructuredExtract, PrimaryConvert, RawFetchAndRender, ProxyFetchAndRender,
\* each at most once; the proxy is invoked only after the raw-fetch stage
\* built a result from a successful fetch and that result is sparse on an
\* allow-listed host, never after a raw-fetch failure and never from the
\* primary converter's result alone.
C11_StagesInOrderProxyAfterRawEscalation ==
  /\ IsPrefix(trace, StageOrder)
  /\ ProxyInvoked =>
       /\ Len(trace) >= 4
       /\ http_result # None
       /\ http_result.word_count < MIN_PROXY_WORD_COUNT
       /\ ShouldUseJinaProxy(Lower(UrlParse(normalized_url).netloc))
  /\ (http_result = None /\ Len(trace) >= 4) =>
       (pc = "failed" /\ trace = SubSeq(StageOrder, 1, 4))

\* all five stages ran: a flagged primary result, then a sparse raw result
C11_Witness ==
  /\ trace = StageOrder
  /\ result # None
  /\ http_result # None
  /\ pc \in {"done", "failed"}

\* the structured extractor applied to the URL and produced no result
StructuredExtractFailed ==
  /\ "StructuredExtract" \in Range(trace)
  /\ IsNotionNetloc(UrlParse(normalized_url).netloc)
  /\ producer # "StructuredExtract"

\* the primary converter ran and produced no result
PrimaryConvertFailed == primary_outcome # None /\ result = None

\* C12 (as claimed): no failure inside StructuredExtract (missing page id,
\* fetch failure, decode failure, no page block, empty rendering) or inside
\* PrimaryConvert (extractor error, empty HTML, empty Markdown) aborts the
\* conversion; the pipeline goes on and reaches the raw-fetch stage.
C12_EarlyFailuresReachRawFetch ==
  (StructuredExtractFailed \/ PrimaryConvertFailed) =>
    \/ pc \in {"primary", "raw"}
    \/ "RawFetchAndRender" \in Range(trace)

(***************************************************************************)
(* _normalize_special_urls applied on its own (specification SpecNormalize)*)
(***************************************************************************)
NormNetlocs ==
  { <<"notion", ".", "so">>,
    WwwNotionSo,
    WwwNotionSo \o <<":", "443">>,
    <<"WWW", ".", "NOTION", ".", "SO">>,
    <<"notion", ".", "so", "mething", ".", "com">>,
    <<"team", ".", "notion", ".", "site">>,
    <<"docs", ".", "google", ".", "com">>,
    <<"example", ".", "com">> }

NormPaths ==
  { <<>>,
    <<"/", "Notes", "-", "h32">>,
    <<"/", "document", "/", "d", "/", "abc", "-", "1", "/", "edit">>,
    <<"/", "document", "/", "d", "/", "abc", "/", "export">>,
    <<"/", "document", "/", "d", "/">>,
    <<"/", "https:", "//", "docs", ".", "google", ".", "com", "/", "\t",
      "document", "/", "d", "/", "abc">> }

NormQueries ==
  { <<>>,
    <<"?", "pvs", "=", "4">>,
    <<"?", "a", "=", "1", "&", "pvs", "=", "4">>,
    <<"?", "a", "=", "1", "&", "&", "f">>,
    <<"?", "usp", "=", "sharing">>,
    <<"?", "format", "=", "html">>,
    <<"?", "a", "=", "/", "=", "?", " ">>,
    <<"?", "u", "=", "https:", "//", "docs", ".", "google", ".", "com", "/",
      "document", "/", "d", "/", "abc">> }

NormFragments == { <<>>, <<"#", "f">> }

NormUrls ==
  {<<scheme, "//">> \o netloc \o path \o query \o fragment :
     scheme \in SchemeTokens, netloc \in NormNetlocs, path \in NormPaths,
     query \in NormQueries, fragment \in NormFragments}

InitNormalize ==
  /\ pc = "call"
  /\ call \in {[url |-> u] : u \in NormUrls}
  /\ ret = <<>>
  /\ url = <<>>
  /\ IdleLocals

\* normalized, metadata = _normalize_special_urls(url)
CallNormalize ==
  /\ pc = "call"
  /\ ret' = <<NormalizeSpecialUrls(call.url)>>
  /\ pc' = "ret"
  /\ UNCHANGED <<url, call, locals>>

\* _normalize_special_urls applied to the URL it returned
CallNormalizeAgain ==
  /\ pc = "ret"
  /\ ret' = Append(ret, NormalizeSpecialUrls(ret[1].url))
  /\ pc' = "ret2"
  /\ UNCHANGED <<url, call, locals>>

NextNormalize == CallNormalize \/ CallNormalizeAgain

SpecNormalize == InitNormalize /\ [][NextNormalize]_vars

\* the number of places where needle occurs in hay
Occurrences(hay, needle) ==
  Cardinality({i \in 1..(Len(hay) - Len(needle) + 1) :
                 SubSeq(hay, i, i + Len(needle) - 1) = needle})

\* C7 (as claimed): normalization is idempotent on the URL it returns: for
\* every input URL, applied to its own output it returns that output.
C7_NormalizeIdempotent ==
  pc = "ret2" => ret[2].url = ret[1].url

\* C7, for the URLs that hold no tab, CR or LF: normalization is idempotent
\* and adds the reader-mode marker and the export suffix at most once.
C7_IdempotentWithoutControlChars ==
  (pc = "ret2" /\ \A i \in 1..Len(call.url) : SafeUrlToken(call.url[i])) =>
    /\ ret[2].url = ret[1].url
    /\ Occurrences(ret[2].url, <<"pvs", "=", "4">>)
         <= Occurrences(call.url, <<"pvs", "=", "4">>) + 1
    /\ Occurrences(ret[2].url, <<"/", "export", "?", "format", "=", "html">>) <= 1

(***************************************************************************)
(* _needs_proxy_render applied on its own (specification SpecEscalation)   *)
(***************************************************************************)
EscNetlocs ==
  JINA_PROXY_HOSTS \cup
  { <<"team", ".", "notion", ".", "site">>,
    <<"a", ".", "www", ".", "notion", ".", "so">>,
    <<"WWW", ".", "NOTION", ".", "SO">>,
    WwwNotionSo \o <<":", "443">>,
    <<"user", "@">> \o WwwNotionSo,
    <<"my", "notion", ".", "so">>,
    <<"notion", ".", "so", ".", "example", ".", "com">>,
    <<"google", ".", "com">>,
    <<"example", ".", "com">> }

InitEscalation ==
  /\ pc = "call"
  /\ call \in {[result |-> MarkdownResult(u, u, <<>>, Words(n), n, EmptyDict),
                url |-> u] :
                 n \in 0..MaxWc,
                 u \in {Https(netloc, <<"/", "Notes">>) : netloc \in EscNetlocs}}
  /\ ret = None
  /\ url = <<>>
  /\ IdleLocals

\* _needs_proxy_render(result, url)
CallNeedsProxyRender ==
  /\ pc = "call"
  /\ ret' = NeedsProxyRender(call.result, call.url)
  /\ pc' = "ret"
  /\ UNCHANGED <<url, call, locals>>

NextEscalation == CallNeedsProxyRender

SpecEscalation == InitEscalation /\ [][NextEscalation]_vars

\* the host of a URL: its netloc without user information and port, in
\* lower case
HostOf(u) ==
  LET netloc == UrlParse(u).netloc
      at == FirstIn(netloc, {"@"}, 1)
      hostport == SubSeq(netloc, at + 1, Len(netloc))
      colon == FirstIn(hostport, {":"}, 1)
  IN  Lower(IF colon = 0 THEN hostport ELSE SubSeq(hostport, 1, colon - 1))

\* host is an allow-listed host or a subdomain of one
HostAllowListed(host) ==
  \E allowed \in JINA_PROXY_HOSTS :
     \/ host = allowed
     \/ /\ Len(host) > Len(allowed) + 1
        /\ SubSeq(host, Len(host) - Len(allowed), Len(host)) = <<".">> \o allowed

\* C4 (as claimed): the escalation check is true if and only if the
\* result's word_count is below 10 and the target host is equal to, or a
\* subdomain of, an allow-listed host.
C4_EscalatesIffSparseOnAllowListedHost ==
  pc = "ret" =>
    (ret <=> (call.result.word_count < 10 /\ HostAllowListed(HostOf(call.url))))

(***************************************************************************)
(* _render_notion_page applied on its own (specification SpecNotion)       *)
(***************************************************************************)
BlockTypes ==
  <<"text", "header", "sub_header", "sub_sub_header", "bulleted_list",
    "numbered_list", "to_do", "quote", "code", "callout", "divider", "image",
    "toggle", "paragraph", "embed">>

\* the title text of block i of a generated record map
Name(i) == <<"b1", "b2", "b3", "b4", "b5", "b6", "b7", "b8">>[i]

InsertAt(seq, pos, x) ==
  SubSeq(seq, 1, pos - 1) \o <<x>> \o SubSeq(seq, pos, Len(seq))

\* the children lists of every tree on the blocks 1..k with root 1
RECURSIVE Trees(_)
Trees(k) ==
  IF k = 1 THEN { << <<>> >> }
  ELSE UNION { UNION { { Append([t EXCEPT ![parent] = InsertAt(t[parent], pos, k)],
                                <<>>) :
                           pos \in 1..(Len(t[parent]) + 1) } :
                       parent \in 1..(k - 1) } :
               t \in Trees(k - 1) }

\* the record map of a tree: block 1 is the page, block i > 1 has the type
\* at place i + shift of BlockTypes and the title Name(i); the blocks in
\* dead are not alive (the odd ones have no "alive" key at all)
TreeMap(tree, shift, dead, titled) ==
  [i \in 1..Len(tree) |->
     IF i = 1
     THEN Entry([type |-> "page",
                 properties |-> IF titled THEN ("title" :> Text(<<Name(1)>>))
                                ELSE EmptyDict,
                 content |-> tree[1], alive |-> TRUE])
     ELSE LET type == BlockTypes[((i + shift) % Len(BlockTypes)) + 1]
              properties ==
                ("title" :> Text(<<Name(i)>>))
                @@ (IF type = "image" THEN ("source" :> Text(<<Name(i)>>))
                    ELSE EmptyDict)
                @@ (IF type = "to_do" /\ i % 2 = 0 THEN ("checked" :> Text(<<"Yes">>))
                    ELSE EmptyDict)
              block == [type |-> type, properties |-> properties,
                        content |-> tree[i]]
          IN  Entry(IF i \in dead /\ i % 2 = 1 THEN block
                    ELSE block @@ ("alive" :> (i \notin dead)))]

\* no dead block, one dead block, or every block below the page dead
DeadSets == {{}, 2..MaxBlocks} \cup {{i} : i \in 2..MaxBlocks}

TreeMaps ==
  {TreeMap(tree, shift, dead, shift % 2 = 0) :
     tree \in Trees(MaxBlocks), shift \in 0..(Len(BlockTypes) - 1),
     dead \in DeadSets}

\* record map m with its page block not alive: flagged so, or without the key
DeadPage(m, flagged) ==
  LET page == m[1].value
      others == [k \in DOMAIN page \ {"alive"} |-> page[k]]
  IN  [m EXCEPT ![1] = Entry(IF flagged THEN others @@ ("alive" :> FALSE)
                             ELSE others)]

\* trees whose page block is dead and whose other blocks are alive
DeadPageMaps ==
  {DeadPage(TreeMap(tree, shift, {}, TRUE), shift = 0) :
     tree \in Trees(MaxBlocks), shift \in {0, 7}}

\* a live block listed both by a dead block and by a live one
SharedChildMap ==
  << Entry(Block("page", Text(<<"b1">>), <<2, 3>>, TRUE)),
     Entry(Block("toggle", Text(<<"b2">>), <<4>>, FALSE)),
     Entry(Block("toggle", Text(<<"b3">>), <<4>>, TRUE)),
     Entry(Block("text", Text(<<"b4">>), <<>>, TRUE)) >>

InitNotion ==
  /\ pc = "call"
  /\ call \in {[record_map |-> m] :
                 m \in TreeMaps \cup DeadPageMaps
                       \cup {ExampleMap, NoPageMap, EmptyPageMap, SharedChildMap}}
  /\ ret = None
  /\ url = <<>>
  /\ IdleLocals

\* markdown = _render_notion_page(record_map)
CallRenderNotionPage ==
  /\ pc = "call"
  /\ ret' = RenderNotionPage(call.record_map)
  /\ pc' = "ret"
  /\ UNCHANGED <<url, call, locals>>

NextNotion == CallRenderNotionPage

SpecNotion == InitNotion /\ [][NextNotion]_vars

ContentOf(m, i) ==
  IF i \in BlockIdsOf(m) THEN Get(m[i].value, "content", <<>>) ELSE <<>>

IndexOf(seq, x) == CHOOSE i \in 1..Len(seq) : seq[i] = x

\* the places <<p, j>> where block b is listed as a child
ListedAt(m, b) ==
  {pj \in (1..Len(m)) \X (1..Len(m)) :
     pj[2] <= Len(ContentOf(m, pj[1])) /\ ContentOf(m, pj[1])[pj[2]] = b}

ParentOf(m, b) == (CHOOSE pj \in ListedAt(m, b) : TRUE)[1]

\* whether climbing from b to its parent, at most fuel times, ends at root
RECURSIVE Climbs(_, _, _, _)
Climbs(m, b, root, fuel) ==
  IF b = root THEN TRUE
  ELSE IF fuel = 0 \/ ListedAt(m, b) = {} THEN FALSE
  ELSE Climbs(m, ParentOf(m, b), root, fuel - 1)

\* the block map is a tree rooted at its one page block
IsTree(m) ==
  LET root == PageBlockId(m)
  IN  /\ root # 0
      /\ \A i \in BlockIdsOf(m) :
           /\ Range(ContentOf(m, i)) \subseteq BlockIdsOf(m)
           /\ Get(m[i].value, "type", "") = "page" => i = root
           /\ Cardinality(ListedAt(m, i)) = (IF i = root THEN 0 ELSE 1)
           /\ Climbs(m, i, root, Len(m))

\* the blocks from the page block down to block b
RECURSIVE PathTo(_, _)
PathTo(m, b) ==
  IF b = PageBlockId(m) THEN <<b>>
  ELSE Append(PathTo(m, ParentOf(m, b)), b)

\* a comes before b in the depth-first pre-order that follows the children
\* lists: a is an ancestor of b, or they branch off under a common ancestor
\* that lists a's branch first
Precedes(m, a, b) ==
  LET pa == PathTo(m, a)
      pb == PathTo(m, b)
  IN  IF IsPrefix(pa, pb) THEN a # b
      ELSE IF IsPrefix(pb, pa) THEN FALSE
      ELSE LET k == CHOOSE j \in 1..Len(pa) :
                      /\ pa[j] # pb[j]
                      /\ SubSeq(pa, 1, j - 1) = SubSeq(pb, 1, j - 1)
               siblings == ContentOf(m, pa[k - 1])
           IN  IndexOf(siblings, pa[k]) < IndexOf(siblings, pb[k])

\* every block on the way from the page block's children to b is alive
LiveInTree(m, b) ==
  LET path == PathTo(m, b)
  IN  \A j \in 2..Len(path) : Get(m[path[j]].value, "alive", FALSE)

\* the text that marks block b in the output: the first token of its title
Marker(m, b) == m[b].value.properties.title[1][1][1]

\* the blocks whose rendering shows their marker
Marked(m) ==
  {b \in BlockIdsOf(m) :
     /\ LiveInTree(m, b)
     /\ "title" \in DOMAIN Get(m[b].value, "properties", EmptyDict)
     /\ Get(m[b].value, "type", "") # "divider"}

\* C8: block rendering is order-preserving: for a block map that is a tree
\* rooted at one page block, the lines of the live blocks appear in
\* depth-first pre-order, following each block's children list (a block's
\* line before its children's, siblings in listed order); children
\* [header("Intro"), bulleted_list("a"), bulleted_list("b")] yield
\* "# Intro\n\n- a\n- b".
C8_BlocksRenderedInPreOrder ==
  (pc = "ret" /\ IsTree(call.record_map)) =>
    LET m == call.record_map
    IN  /\ \A b \in Marked(m) : Occurrences(ret, <<Marker(m, b)>>) = 1
        /\ \A a, b \in Marked(m) :
             Precedes(m, a, b) =>
               IndexOf(ret, Marker(m, a)) < IndexOf(ret, Marker(m, b))
        /\ m = ExampleMap =>
             ret = <<"#", " ", "Intro", "\n", "\n",
                     "-", " ", "a", "\n", "-", " ", "b">>

\* a rendered tree of depth two: a live block with a live child and a live
\* sibling listed after it
C8_Witness ==
  /\ pc = "ret"
  /\ IsTree(call.record_map)
  /\ \E a, b, c \in Marked(call.record_map) :
       /\ ContentOf(call.record_map, a) = <<b>>
       /\ Precedes(call.record_map, b, c)
       /\ c \in Range(ContentOf(call.record_map, 1))
       /\ a \in Range(ContentOf(call.record_map, 1))

\* the blocks that are not alive: the flag is false or absent
DeadBlocks(m) == {b \in BlockIdsOf(m) : ~Get(m[b].value, "alive", FALSE)}

\* block b of a tree is dead or lies below a dead block
Excluded(m, b) == Range(PathTo(m, b)) \cap DeadBlocks(m) # {}

\* the record map once its dead blocks are taken out of it
WithoutDead(m) ==
  [i \in 1..Len(m) |-> IF i \in DeadBlocks(m) THEN [role |-> "none"] ELSE m[i]]

HasTitle(m, b) == "title" \in DOMAIN Get(m[b].value, "properties", EmptyDict)

\* the page block is alive, or there is none
PageAlive(m) == PageBlockId(m) \notin DeadBlocks(m)

\* C13 (as claimed): no block that is not alive, the page block or any block
\* below it, contributes its title text or any line to the rendered
\* Markdown, and the children of a dead block are not rendered through it:
\* the output is that of the block map without its dead blocks.
C13_DeadBlocksNotRendered ==
  pc = "ret" =>
    LET m == call.record_map
    IN  /\ ret = RenderNotionPage(WithoutDead(m))
        /\ IsTree(m) =>
             \A b \in BlockIdsOf(m) :
               (Excluded(m, b) /\ HasTitle(m, b)) =>
                 Occurrences(ret, <<Marker(m, b)>>) = 0

\* the same for the blocks below a page block that is alive
C13_DeadBlocksBelowPageNotRendered ==
  (pc = "ret" /\ PageAlive(call.record_map)) => C13_DeadBlocksNotRendered

====
